---- MODULE Spec2Model ----
(***************************************************************************)
(* Model of snowflake.nvim (rplugin/python3/snowflake.py): the scene record *)
(* store (class SceneManager), the document builders, and the plugin's     *)
(* menu and project state (class SnowflakePlugin).                         *)
(*                                                                         *)
(* Byte strings are sequences of one-character strings; the line feed is   *)
(* the token NL.  A file is the byte string it holds.  The scene list file *)
(* (snowflake-scenes.yaml) holds a YAML document, modelled as the sequence *)
(* of mappings yaml.dump writes, each mapping a sequence of key/value      *)
(* pairs.                                                                  *)
(***************************************************************************)
EXTENDS Integers, Sequences, FiniteSets, TLC

\* Largest scene list the model builds while the environment interferes.
MaxScenes == 2

\* Largest scene list the model builds while the environment leaves the
\* files alone.
MaxListLen == 3

\* How many times the model lets the environment interfere: an editor
\* rewriting a backing file, or an open() that fails.
MaxDisturbances == 1

\* Largest scene list the model builds from the menu.
MaxMenuScenes == 2

\* Largest scene list the model builds through the plugin instances.
MaxProjectScenes == 2

NL == "NL"

\* b'.. ', the comment marker of refresh_scene and add_at.
MARKER == <<".", ".", " ">>

\* Bytes that bytes.strip() removes (of the alphabet used here).
WHITESPACE == {" ", NL}

\* Answers the user may type at the 'Scene title> ' prompt.
Titles == {<<"a">>, <<".", ".", " ", "b">>}

\* Answers the user may type at the 'Scene description> ' prompt.
Descrs == {<<"b">>}

\* Contents an editor may leave in a scene's backing file.
EditContents ==
  { <<"a", NL, ".", ".", " ", "b", NL>>,
    <<".", ".", " ", "a", NL>>,
    <<".", ".", " ", "b", NL, ".", ".", " ", "a", NL, NL, "a", NL>>,
    <<"a", NL, "b", NL>>,
    <<".", ".", " ", "a", NL, ".", ".", " ", "b", NL, "a">> }

----------------------------------------------------------------------------
(* Python built-ins used by the code *)

\* bytes.startswith
StartsWith(s, prefix) ==
  /\ Len(s) >= Len(prefix)
  /\ SubSeq(s, 1, Len(prefix)) = prefix

\* s[n:] for n >= 0
DropFirst(s, n) == SubSeq(s, n + 1, Len(s))

\* bytes.replace(old, b''): every non-overlapping occurrence, left to right
RECURSIVE Remove(_, _)
Remove(s, old) ==
  IF s = <<>> THEN <<>>
  ELSE IF StartsWith(s, old) THEN Remove(DropFirst(s, Len(old)), old)
  ELSE <<Head(s)>> \o Remove(Tail(s), old)

RECURSIVE LStrip(_)
LStrip(s) ==
  IF s # <<>> /\ Head(s) \in WHITESPACE THEN LStrip(Tail(s)) ELSE s

RECURSIVE RStrip(_)
RStrip(s) ==
  IF s # <<>> /\ s[Len(s)] \in WHITESPACE
  THEN RStrip(SubSeq(s, 1, Len(s) - 1)) ELSE s

\* bytes.strip()
Strip(s) == RStrip(LStrip(s))

\* f.readlines(): split after every line feed, keeping it
RECURSIVE ReadLinesFrom(_, _)
ReadLinesFrom(bytes, cur) ==
  IF bytes = <<>> THEN (IF cur = <<>> THEN <<>> ELSE <<cur>>)
  ELSE IF Head(bytes) = NL
       THEN <<cur \o <<NL>>>> \o ReadLinesFrom(Tail(bytes), <<>>)
       ELSE ReadLinesFrom(Tail(bytes), cur \o <<Head(bytes)>>)

ReadLines(bytes) == ReadLinesFrom(bytes, <<>>)

\* b''.join(lines)
RECURSIVE Join(_)
Join(lines) ==
  IF lines = <<>> THEN <<>> ELSE Head(lines) \o Join(Tail(lines))

\* list.insert(i, x): a negative index counts from the end, and an index
\* outside the list is clamped to its ends
ListInsert(list, i, x) ==
  LET n == Len(list)
      j == IF i < 0 THEN (IF i + n < 0 THEN 0 ELSE i + n)
           ELSE (IF i > n THEN n ELSE i)
  IN SubSeq(list, 1, j) \o <<x>> \o SubSeq(list, j + 1, n)

\* list.pop(i) raises IndexError outside [-len, len-1]
PopInRange(list, i) == i >= -Len(list) /\ i < Len(list)

\* the list left by list.pop(i), for an index in range
ListPop(list, i) ==
  LET j == IF i < 0 THEN i + Len(list) ELSE i
  IN SubSeq(list, 1, j) \o SubSeq(list, j + 2, Len(list))

\* the element list.pop(i) returns, for an index in range
ListAt(list, i) == list[(IF i < 0 THEN i + Len(list) ELSE i) + 1]

----------------------------------------------------------------------------
(* State *)

VARIABLES
  scenes,    \* SceneManager.scenes: sequence of [title, descr, filename]
  files,     \* the scenes' backing files: filename -> bytes
  yamlFile,  \* snowflake-scenes.yaml: [exists, doc]
  last,      \* the last call and how it ended
  disturbances, \* how many times the environment has interfered so far
  observed,  \* what the last call returned or handed to the outside
  expanded,  \* Manager.expanded of the two managers
  cursor,    \* line('.') in the menu window
  menubuf,   \* SnowflakePlugin.menubuf: the lines of the menu buffer
  initial_info,  \* SnowflakePlugin.initial_info, an attribute of the class
  snowflake, \* self.snowflake['info'] of each plugin instance
  inited,    \* self.inited of each plugin instance
  snowflakeYaml  \* snowflake.yaml: [exists, doc]

storeVars == <<scenes, files, yamlFile>>

menuVars == <<expanded, cursor, menubuf>>

projectVars == <<initial_info, snowflake, inited, snowflakeYaml>>

vars == <<scenes, files, yamlFile, last, disturbances, observed,
          expanded, cursor, menubuf,
          initial_info, snowflake, inited, snowflakeYaml>>

\* Names uuid.uuid4() can give a backing file: as many as the scenes the model
\* builds, and one more for a file whose scene never reached the list file.
Filenames == 1..((IF MaxScenes > MaxListLen THEN MaxScenes ELSE MaxListLen) + 1)

\* yaml.dump(self.scenes): one mapping per scene, keys in the order of the
\* OrderedDict add_at builds
YamlDump(list) ==
  [i \in 1..Len(list) |->
     << <<"title", list[i].title>>,
        <<"descr", list[i].descr>>,
        <<"filename", list[i].filename>> >>]

\* the value a mapping holds for a key
YamlValue(mapping, key) ==
  mapping[CHOOSE k \in 1..Len(mapping) : mapping[k][1] = key][2]

\* yaml.load(f.read())
YamlLoad(doc) ==
  [i \in 1..Len(doc) |->
     [title    |-> YamlValue(doc[i], "title"),
      descr    |-> YamlValue(doc[i], "descr"),
      filename |-> YamlValue(doc[i], "filename")]]

Call(op, status, at, a, b, t, d) ==
  [op |-> op, status |-> status, at |-> at, a |-> a, b |-> b, t |-> t, d |-> d]

\* What a call that returns None, starts no converter, asks nothing and
\* opens nothing hands to the outside.
\* Python's None, a str, and a key a dict does not hold
None == <<"None">>

Str(s) == <<"str", s>>

Absent == <<"absent">>

\* initial_info: every field None
NoInfo == [k \in {"name", "author", "copyright-year"} |-> None]

\* What a call hands to the outside when it returns None, starts no
\* converter, asks nothing and opens nothing.
Nothing ==
  [self |-> 0, command |-> "-", returned |-> None, converted |-> <<>>,
   prompts |-> <<>>, loaded |-> NoInfo, document |-> <<>>, opened |-> None,
   moved |-> <<>>]

\* The plugin instances of the process.
Instances == {1, 2}

\* the keys of initial_info and snowflake_prompts, in their order
InfoKeys == <<"name", "author", "copyright-year">>

\* SnowflakeManager.contribute_to_menu(buf): the lines it appends
SnowflakeMenu(is_expanded) ==
  IF is_expanded
  THEN << <<"-", "SNOWFLAKE">>,
          <<" ", " ", "one-line.rst">>, <<" ", " ", "one-paragraph.rst">>,
          <<" ", " ", "one-page.rst">>, <<" ", " ", "synopsis.rst">>,
          <<>> >>
  ELSE << <<"+", "SNOWFLAKE">> >>

\* the two lines SceneManager.contribute_to_menu appends for each scene
RECURSIVE SceneLines(_)
SceneLines(list) ==
  IF list = <<>> THEN <<>>
  ELSE << <<" ", " ">> \o Head(list).title,
          <<" ", " ", " ">> \o Head(list).descr >> \o SceneLines(Tail(list))

\* SceneManager.contribute_to_menu(buf): the lines it appends
ScenesMenu(list, is_expanded) ==
  IF is_expanded
  THEN << <<"-", "SCENES">> >> \o SceneLines(list)
  ELSE << <<"+", "SCENES">> >>

\* the menu buffer update_menu builds
MenuLines(list, exp) ==
  << <<"MENU">>, <<"====">>, <<>> >>
    \o SnowflakeMenu(exp.snowflake) \o ScenesMenu(list, exp.scene)

\* SceneManager() in a directory without snowflake-scenes.yaml and without
\* snowflake.yaml, and the plugin instances before the Snowflake command
Init ==
  /\ scenes = <<>>
  /\ files = <<>>
  /\ yamlFile = [exists |-> FALSE, doc |-> <<>>]
  /\ last = Call("__init__", "ok", "-", 0, 0, <<>>, <<>>)
  /\ disturbances = 0
  /\ observed = Nothing
  /\ expanded = [snowflake |-> FALSE, scene |-> FALSE]
  /\ cursor = 1
  /\ menubuf = <<>>
  /\ initial_info = NoInfo
  /\ snowflake = [p \in Instances |-> [aliased |-> TRUE, info |-> NoInfo]]
  /\ inited = [p \in Instances |-> FALSE]
  /\ snowflakeYaml = [exists |-> FALSE, doc |-> [has_info |-> FALSE, info |-> NoInfo]]

\* Filenames a scene or a file already carries.
UsedFilenames == DOMAIN files \cup {scenes[i].filename : i \in 1..Len(scenes)}

\* uuid.uuid4(): an identifier no scene or file carries yet
uuid4 == CHOOSE n \in Filenames \ UsedFilenames :
           \A m \in Filenames \ UsedFilenames : n <= m

\* '.. {}\n'.format(text).encode('utf-8')
CommentLine(text) == MARKER \o text \o <<NL>>

\* the three lines add_at writes to the backing file
SceneFile(scene) ==
  CommentLine(scene.title) \o CommentLine(scene.descr) \o <<NL>>

\* A save() that opens the scene list file for appending.
SaveAppending(list) ==
  [exists |-> TRUE, doc |-> yamlFile.doc \o YamlDump(list)]

\* save(): the scene list file is opened 'wb' and holds the dump of the list
Save(list) == [exists |-> TRUE, doc |-> YamlDump(list)]

\* File-system faults a call can meet: none, or a failing open() of the n-th
\* scene's backing file for reading or writing, or of the scene list file.
NoFault == [kind |-> "none", n |-> 0]

Faults ==
  {NoFault, [kind |-> "yaml", n |-> 0]}
    \cup [kind : {"read", "write"}, n : 1..Len(scenes)]

\* An insertion that ignores the index and appends.
InsertedLast(list, idx, scene) == Append(list, scene)

\* self.scenes.insert(idx, scene)
Inserted(list, idx, scene) == ListInsert(list, idx, scene)

\* add_at(idx, nvim), the prompts answered with title and descr
add_at(idx, title, descr, fault) ==
  LET fname == uuid4
      scene == [title |-> title, descr |-> descr, filename |-> fname]
  IN /\ Filenames \ UsedFilenames # {}
     /\ IF (scenes = <<>> /\ idx # 0) \/ (scenes # <<>> /\ idx < 0)
        THEN /\ last' = Call("add_at", "AssertionError", "-", idx, 0, title, descr)
             /\ UNCHANGED <<scenes, files, yamlFile>>
        ELSE /\ scenes' = Inserted(scenes, idx, scene)
             /\ IF fault.kind = "write"
                THEN /\ last' = Call("add_at", "OSError", "write", idx, 0, title, descr)
                     /\ UNCHANGED <<files, yamlFile>>
                ELSE /\ files' = (fname :> SceneFile(scene)) @@ files
                     /\ IF fault.kind = "yaml"
                        THEN /\ last' = Call("add_at", "OSError", "yaml", idx, 0, title, descr)
                             /\ UNCHANGED yamlFile
                        ELSE /\ yamlFile' = Save(scenes')
                             /\ last' = Call("add_at", "ok", "-", idx, 0, title, descr)

\* A move that exchanges the two entries.
MovedByCopy(list, from_idx, to_idx) ==
  ListInsert(list, to_idx, ListAt(list, from_idx))

MovedBySwap(list, from_idx, to_idx) ==
  LET to == IF to_idx >= Len(list) THEN Len(list) - 1 ELSE to_idx
  IN [list EXCEPT ![from_idx + 1] = list[to + 1], ![to + 1] = list[from_idx + 1]]

\* self.scenes.insert(to_idx, self.scenes.pop(from_idx)): the list move
\* leaves, for a from_idx that pop accepts
Moved(list, from_idx, to_idx) ==
  ListInsert(ListPop(list, from_idx), to_idx, ListAt(list, from_idx))

\* move(from_idx, to_idx)
move(from_idx, to_idx, fault) ==
  IF from_idx < 0 \/ to_idx < 0
  THEN /\ last' = Call("move", "AssertionError", "-", from_idx, to_idx, <<>>, <<>>)
       /\ UNCHANGED <<scenes, files, yamlFile>>
  ELSE IF ~PopInRange(scenes, from_idx)
  THEN /\ last' = Call("move", "IndexError", "-", from_idx, to_idx, <<>>, <<>>)
       /\ UNCHANGED <<scenes, files, yamlFile>>
  ELSE /\ scenes' = Moved(scenes, from_idx, to_idx)
       /\ UNCHANGED files
       /\ IF fault.kind = "yaml"
          THEN /\ last' = Call("move", "OSError", "yaml", from_idx, to_idx, <<>>, <<>>)
               /\ UNCHANGED yamlFile
          ELSE /\ yamlFile' = Save(scenes')
               /\ last' = Call("move", "ok", "-", from_idx, to_idx, <<>>, <<>>)

\* top_lines = lines[:2]
TopLines(lines) == SubSeq(lines, 1, IF Len(lines) < 2 THEN Len(lines) ELSE 2)

\* len([l for l in top_lines if l.startswith(b'.. ')])
CommentCount(top_lines) ==
  Cardinality({i \in 1..Len(top_lines) : StartsWith(top_lines[i], MARKER)})

\* for i in range(to_add): lines.insert(i, b'.. \n')
AddComments(lines, to_add) ==
  [lines   |-> IF to_add = 2
               THEN ListInsert(ListInsert(lines, 0, MARKER \o <<NL>>), 1, MARKER \o <<NL>>)
               ELSE IF to_add = 1 THEN ListInsert(lines, 0, MARKER \o <<NL>>)
               ELSE lines,
   changed |-> to_add > 0]

\* if lines[2] != b'\n': lines.insert(2, b'\n'); lines[2] raises IndexError
\* when there are fewer than three lines
AddSeparator(r) ==
  IF Len(r.lines) < 3
  THEN [lines |-> r.lines, changed |-> r.changed, raised |-> TRUE]
  ELSE IF r.lines[3] # <<NL>>
  THEN [lines |-> ListInsert(r.lines, 2, <<NL>>), changed |-> TRUE, raised |-> FALSE]
  ELSE [lines |-> r.lines, changed |-> r.changed, raised |-> FALSE]

\* the repair of refresh_scene on the lines of a backing file
RepairedLines(lines) ==
  AddSeparator(AddComments(lines, 2 - CommentCount(TopLines(lines))))

\* the repair of refresh_scene on the bytes of a backing file: the lines with
\* the missing comment lines and the separator inserted, whether anything was
\* inserted, and whether lines[2] raised IndexError
Repaired(bytes) == RepairedLines(ReadLines(bytes))

\* line.replace(b'.. ', b'').strip().decode('utf-8')
Field(line) == Strip(Remove(line, MARKER))

RefreshedRenaming(scene, lines) ==
  [filename |-> 0, title |-> Field(lines[1]), descr |-> Field(lines[2])]

\* scene['title'] = ...; scene['descr'] = ...
Refreshed(scene, lines) ==
  [scene EXCEPT !.title = Field(lines[1]), !.descr = Field(lines[2])]

\* refresh_scene from the repair r of the scene's file on
RefreshRepaired(scene, fs, write_fails, r) ==
  IF r.raised
  THEN [status |-> "IndexError", at |-> "-", scene |-> scene, files |-> fs]
  ELSE IF r.changed /\ write_fails
  THEN [status |-> "OSError", at |-> "write",
        scene |-> Refreshed(scene, r.lines), files |-> fs]
  ELSE [status |-> "ok", at |-> "-", scene |-> Refreshed(scene, r.lines),
        files |-> IF r.changed
                  THEN [fs EXCEPT ![scene.filename] = Join(r.lines)]
                  ELSE fs]

\* refresh_scene(scene, save=False) for the n-th scene of the list, with the
\* backing files fs: the scene and the files it leaves, and how it ended
refresh_scene(scene, n, fs, fault) ==
  IF scene.filename \notin DOMAIN fs \/ fault = [kind |-> "read", n |-> n]
  THEN [status |-> "OSError", at |-> "read", scene |-> scene, files |-> fs]
  ELSE RefreshRepaired(scene, fs, fault = [kind |-> "write", n |-> n],
                       Repaired(fs[scene.filename]))

\* the loop of refresh_scenes from the n-th scene on: it stops at the first
\* scene whose refresh raises
RECURSIVE RefreshFrom(_, _, _, _)

\* the loop once refresh_scene has ended as r for the n-th scene
RefreshNext(n, list, fault, r) ==
  IF r.status # "ok"
  THEN [status |-> r.status, at |-> r.at, n |-> n,
        scenes |-> [list EXCEPT ![n] = r.scene], files |-> r.files]
  ELSE RefreshFrom(n + 1, [list EXCEPT ![n] = r.scene], r.files, fault)

RefreshFrom(n, list, fs, fault) ==
  IF n > Len(list)
  THEN [status |-> "ok", at |-> "-", n |-> 0, scenes |-> list, files |-> fs]
  ELSE RefreshNext(n, list, fault, refresh_scene(list[n], n, fs, fault))

\* refresh_scenes() once its loop has ended as r: save() if no scene raised
RefreshSave(op, fault, r) ==
  /\ scenes' = r.scenes
  /\ files' = r.files
  /\ IF r.status # "ok"
     THEN /\ last' = Call(op, r.status, r.at, r.n, 0, <<>>, <<>>)
          /\ UNCHANGED yamlFile
     ELSE IF fault.kind = "yaml"
     THEN /\ last' = Call(op, "OSError", "yaml", 0, 0, <<>>, <<>>)
          /\ UNCHANGED yamlFile
     ELSE /\ last' = Call(op, "ok", "-", 0, 0, <<>>, <<>>)
          /\ yamlFile' = Save(r.scenes)

\* refresh_scenes() on the list `list`: the loop, then save()
RefreshAndSave(op, list, fault) ==
  RefreshSave(op, fault, RefreshFrom(1, list, files, fault))

\* refresh_scenes(), called when a .rst buffer has been written
refresh_scenes(fault) == RefreshAndSave("refresh_scenes", scenes, fault)

\* SceneManager(): a new process reads the scene list file
Load(fault) ==
  IF yamlFile.exists
  THEN RefreshAndSave("__init__", YamlLoad(yamlFile.doc), fault)
  ELSE /\ scenes' = <<>>
       /\ last' = Call("__init__", "ok", "-", 0, 0, <<>>, <<>>)
       /\ UNCHANGED <<files, yamlFile>>

\* the user writes a scene's backing file from an editor
EditFile(filename, bytes) ==
  /\ filename \in DOMAIN files
  /\ disturbances < MaxDisturbances
  /\ disturbances' = disturbances + 1
  /\ files' = [files EXCEPT ![filename] = bytes]
  /\ last' = Call("edit", "ok", "-", 0, 0, <<>>, <<>>)
  /\ UNCHANGED <<scenes, yamlFile>>

\* a call meets the fault if the environment may still interfere, and the
\* fault is one the call runs into
Meets(fault) ==
  IF fault = NoFault
  THEN UNCHANGED disturbances
  ELSE /\ disturbances < MaxDisturbances
       /\ disturbances' = disturbances + 1
       /\ last'.status = "OSError"
       /\ last'.at = fault.kind

\* self.scenes[idx + 1]['filename']
NextFilename(list, idx) ==
  IF idx + 1 < Len(list) THEN ListAt(list, idx + 1).filename
  ELSE ListAt(list, 0).filename

\* self.scenes[idx]['filename']
Filename(list, idx) == ListAt(list, idx).filename

\* what get_file_by_idx(idx) returns, and how it ends
FileByIdx(list, idx) ==
  IF list = <<>> THEN [status |-> "ok", returned |-> None]
  ELSE IF PopInRange(list, idx)
       THEN [status |-> "ok", returned |-> Str(Filename(list, idx))]
       ELSE [status |-> "IndexError", returned |-> None]

\* SceneManager.get_file_by_idx(idx)
get_file_by_idx(idx) ==
  /\ last' = Call("get_file_by_idx", FileByIdx(scenes, idx).status, "-",
                  idx, 0, <<>>, <<>>)
  /\ observed' = [Nothing EXCEPT !.returned = FileByIdx(scenes, idx).returned]
  /\ UNCHANGED <<storeVars, disturbances, menuVars, projectVars>>

\* the converter's return values a build run may meet, one for each document
Retvals == [{"one-docs", "synopsis", "scenes"} -> {0, 1}]

\* subprocess.call([cmd, path, converted_path]) on the document
Converted(doc, rets) == [doc |-> doc, retval |-> rets[doc]]

\* how a build ends that has started the converter on these documents
BuildStatus(converted) ==
  IF \E i \in 1..Len(converted) : converted[i].retval # 0
  THEN "RuntimeError" ELSE "ok"

SnowflakeBuildAll(rets) ==
  <<Converted("one-docs", rets), Converted("synopsis", rets)>>

\* SnowflakeManager.build: the converter runs it starts, the second only
\* when the first returned 0
SnowflakeBuild(rets) ==
  IF rets["one-docs"] # 0 THEN <<Converted("one-docs", rets)>>
  ELSE <<Converted("one-docs", rets), Converted("synopsis", rets)>>

RECURSIVE SceneDocumentReversed(_, _)
SceneDocumentReversed(list, fs) ==
  IF list = <<>> THEN <<>>
  ELSE fs[list[Len(list)].filename] \o <<NL>>
         \o SceneDocumentReversed(SubSeq(list, 1, Len(list) - 1), fs)

\* what SceneManager.build writes to the output file when every backing
\* file opens
RECURSIVE SceneDocument(_, _)
SceneDocument(list, fs) ==
  IF list = <<>> THEN <<>>
  ELSE fs[Head(list).filename] \o <<NL>> \o SceneDocument(Tail(list), fs)

\* the scenes SceneManager.build reads before a backing file fails to open
RECURSIVE Readable(_, _)
Readable(list, fs) ==
  IF list = <<>> \/ Head(list).filename \notin DOMAIN fs THEN <<>>
  ELSE <<Head(list)>> \o Readable(Tail(list), fs)

\* build_snowflake once SnowflakeManager.build has started these converter
\* runs: on a failure the RuntimeError ends the command, otherwise
\* SceneManager.build writes its document and converts it
BuildScenes(rets, started) ==
  IF BuildStatus(started) # "ok"
  THEN /\ last' = Call("build_snowflake", "RuntimeError", "-", 0, 0, <<>>, <<>>)
       /\ observed' = [Nothing EXCEPT !.converted = started]
  ELSE IF Readable(scenes, files) # scenes
  THEN /\ last' = Call("build_snowflake", "OSError", "-", 0, 0, <<>>, <<>>)
       /\ observed' = [Nothing EXCEPT
                         !.converted = started,
                         !.document = SceneDocument(Readable(scenes, files), files)]
  ELSE /\ last' = Call("build_snowflake",
                       BuildStatus(<<Converted("scenes", rets)>>),
                       "-", 0, 0, <<>>, <<>>)
       /\ observed' = [Nothing EXCEPT
                         !.converted = Append(started, Converted("scenes", rets)),
                         !.document = SceneDocument(scenes, files)]

\* SnowflakePlugin.build_snowflake()
build_snowflake(rets) ==
  /\ BuildScenes(rets, SnowflakeBuild(rets))
  /\ UNCHANGED <<storeVars, disturbances, menuVars, projectVars>>

\* self.managers['scene'].scenes of the instance: managers is an attribute
\* of the class, so every instance reads the one list
ScenesOf(p) == scenes

\* self.snowflake['info'] of the instance: the class's initial_info until
\* load_snowflake has put the loaded mapping in its place
InfoOf(p) == IF snowflake[p].aliased THEN initial_info ELSE snowflake[p].info

\* self.snowflake after init_snowflake's `if os.path.exists(SNOWFLAKE_YAML):
\* self.load_snowflake()`: update() puts the file's 'info' in the place of
\* the one in memory
Loaded(p) ==
  IF snowflakeYaml.exists /\ snowflakeYaml.doc.has_info
  THEN [aliased |-> FALSE, info |-> snowflakeYaml.doc.info]
  ELSE [aliased |-> snowflake[p].aliased, info |-> InfoOf(p)]

\* self.snowflake['info'].get(key) is None
IsNone(info, key) == info[key] \in {None, Absent}

PromptsAll(info) == InfoKeys

\* the keys check_snowflake prompts for, in the order of snowflake_prompts
Prompts(info) == SelectSeq(InfoKeys, LAMBDA key : IsNone(info, key))

\* self.snowflake['info'] after check_snowflake
Checked(info, answers) ==
  [key \in DOMAIN NoInfo |->
     IF IsNone(info, key) THEN Str(answers[key]) ELSE info[key]]

\* yaml.dump(self.snowflake)
ProjectDump(info) == [has_info |-> TRUE, info |-> info]

\* init_snowflake from check_snowflake on, with self.snowflake as it is
\* after the load: the prompts, the save, the menu
InitChecked(p, answers, fault, l) ==
  /\ observed' = [Nothing EXCEPT !.self = p, !.command = "init_snowflake",
                                 !.loaded = l.info, !.prompts = Prompts(l.info)]
  /\ IF l.aliased
     THEN /\ initial_info' = Checked(l.info, answers)
          /\ UNCHANGED snowflake
     ELSE /\ snowflake' = [snowflake EXCEPT
                             ![p] = [aliased |-> FALSE,
                                     info |-> Checked(l.info, answers)]]
          /\ UNCHANGED initial_info
  /\ IF fault.kind = "yaml"
     THEN /\ last' = Call("init_snowflake", "OSError", "yaml", p, 0, <<>>, <<>>)
          /\ UNCHANGED <<snowflakeYaml, inited, menuVars>>
     ELSE /\ last' = Call("init_snowflake", "ok", "-", p, 0, <<>>, <<>>)
          /\ snowflakeYaml' = [exists |-> TRUE,
                               doc |-> ProjectDump(Checked(l.info, answers))]
          /\ menubuf' = MenuLines(scenes, expanded)
          /\ cursor' = 1
          /\ inited' = [inited EXCEPT ![p] = TRUE]
          /\ UNCHANGED expanded

\* SnowflakePlugin.init_snowflake(args, range) of instance p, the prompts
\* answered with answers
init_snowflake(p, answers, fault) ==
  /\ IF inited[p]
     THEN /\ last' = Call("init_snowflake", "ok", "inited", p, 0, <<>>, <<>>)
          /\ observed' = [Nothing EXCEPT !.self = p, !.command = "init_snowflake"]
          /\ UNCHANGED <<menuVars, projectVars>>
     ELSE InitChecked(p, answers, fault, Loaded(p))
  /\ UNCHANGED storeVars

\* the answers the user may give to the three prompts
Answers == [DOMAIN NoInfo -> {"x", "y"}]

\* snowflake.yaml as an editor may leave it: without 'info', or with an
\* 'info' that holds null for the name and nothing for the author
ProjectDocs ==
  { [has_info |-> FALSE, info |-> NoInfo],
    [has_info |-> TRUE,
     info |-> [NoInfo EXCEPT !["author"] = Absent, !["copyright-year"] = Str("z")]] }

\* the user writes snowflake.yaml from an editor
EditProject(doc) ==
  /\ snowflakeYaml.exists
  /\ disturbances < MaxDisturbances
  /\ disturbances' = disturbances + 1
  /\ snowflakeYaml' = [exists |-> TRUE, doc |-> doc]
  /\ last' = Call("edit", "ok", "-", 0, 0, <<>>, <<>>)
  /\ observed' = Nothing
  /\ UNCHANGED <<storeVars, menuVars, initial_info, snowflake, inited>>

\* the lines up to curr_line that menu_stat takes for a manager's header
HeaderLines(buf, curr_line) ==
  {i \in 1..Len(buf) :
     /\ buf[i] # <<>>
     /\ Head(buf[i]) \in {"+", "-"}
     /\ i <= curr_line
     /\ Tail(buf[i]) \in {<<"SNOWFLAKE">>, <<"SCENES">>}}

\* the last of a set of lines
LastLine(lines) == CHOOSE i \in lines : \A j \in lines : j <= i

\* the key in managers of the manager with the header's title
ManagerOf(line) == IF Tail(line) = <<"SNOWFLAKE">> THEN "snowflake" ELSE "scene"

\* MenuStat(in_manager, offset, menu_line, curr_col) for the header at
\* menu_line
MenuStatAt(buf, curr_line, menu_line) ==
  [status |-> "ok", manager |-> ManagerOf(buf[menu_line]),
   offset |-> curr_line - menu_line, line |-> menu_line]

\* SnowflakePlugin.menu_stat(): with no header at or above the cursor
\* menu_line is None and curr_line - menu_line raises TypeError
menu_stat(buf, curr_line) ==
  IF HeaderLines(buf, curr_line) = {}
  THEN [status |-> "TypeError", manager |-> "None", offset |-> 0, line |-> 0]
  ELSE MenuStatAt(buf, curr_line, LastLine(HeaderLines(buf, curr_line)))

\* cursor(lnum, col): a line past the end of the buffer is its last line
Clamp(lnum, buf) == IF lnum > Len(buf) THEN Len(buf) ELSE lnum

\* update_menu(menu_stat): the buffer is drawn again and the cursor put on
\* lnum; without a menu_stat the cursor is left on the first line
update_menu(list, exp, lnum) ==
  /\ menubuf' = MenuLines(list, exp)
  /\ cursor' = Clamp(lnum, MenuLines(list, exp))

\* the mappings of make_menu_pane exist
MenuDrawn == menubuf # <<>>

\* a command that ends before it calls a manager
Returned(command, status) ==
  /\ last' = Call(command, status, "-", cursor, 0, <<>>, <<>>)
  /\ observed' = [Nothing EXCEPT !.command = command]
  /\ UNCHANGED <<storeVars, menuVars>>

\* toggle_menu from menu_stat on
Toggled(ms) ==
  IF ms.status # "ok" THEN Returned("toggle_menu", ms.status)
  ELSE /\ expanded' = [expanded EXCEPT ![ms.manager] = ~expanded[ms.manager]]
       /\ update_menu(scenes, expanded', ms.line)
       /\ last' = Call("toggle_menu", "ok", "-", cursor, 0, <<>>, <<>>)
       /\ observed' = [Nothing EXCEPT !.command = "toggle_menu"]
       /\ UNCHANGED storeVars

\* SnowflakePlugin.toggle_menu(args)
toggle_menu ==
  /\ MenuDrawn
  /\ Toggled(menu_stat(menubuf, cursor))
  /\ UNCHANGED <<projectVars, disturbances>>

\* manager.add_at(idx, nvim), and when it returns the group expanded and
\* the menu drawn with the cursor where it was
AddedFromMenu(command, ms, idx, title, descr) ==
  /\ add_at(idx, title, descr, NoFault)
  /\ observed' = [Nothing EXCEPT !.command = command]
  /\ IF last'.status = "ok"
     THEN /\ expanded' = [expanded EXCEPT !.scene = TRUE]
          /\ update_menu(scenes', expanded', ms.line + ms.offset)
     ELSE UNCHANGED menuVars

\* idx = offset - 1 if offset > 0 else offset; idx //= 2
SceneIndex(offset) == (IF offset > 0 THEN offset - 1 ELSE offset) \div 2

\* prepend_scene from menu_stat on
Prepended(ms, title, descr) ==
  IF ms.status # "ok" THEN Returned("prepend_scene", ms.status)
  ELSE IF ms.offset = 0 \/ ms.manager # "scene"
  THEN Returned("prepend_scene", "ok")
  ELSE AddedFromMenu("prepend_scene", ms, SceneIndex(ms.offset), title, descr)

\* SnowflakePlugin.prepend_scene(args)
prepend_scene(title, descr) ==
  /\ MenuDrawn
  /\ Prepended(menu_stat(menubuf, cursor), title, descr)
  /\ UNCHANGED <<projectVars, disturbances>>

AppendIndexPastEnd(offset) == (offset + 2) \div 2

\* append_scene's idx: offset + 1 on a title line, then idx //= 2
AppendIndex(offset) ==
  (IF offset > 0 /\ offset % 2 = 1 THEN offset + 1 ELSE offset) \div 2

\* append_scene from menu_stat on
Appended(ms, title, descr) ==
  IF ms.status # "ok" THEN Returned("append_scene", ms.status)
  ELSE IF ms.manager # "scene" THEN Returned("append_scene", "ok")
  ELSE AddedFromMenu("append_scene", ms, AppendIndex(ms.offset), title, descr)

\* SnowflakePlugin.append_scene(args)
append_scene(title, descr) ==
  /\ MenuDrawn
  /\ Appended(menu_stat(menubuf, cursor), title, descr)
  /\ UNCHANGED <<projectVars, disturbances>>

\* manager.move(idx, idx + direction), and when it returns the menu drawn
\* with the cursor on the title line of dst_idx
MovedFromMenu(ms, idx, dst_idx) ==
  /\ move(idx, dst_idx, NoFault)
  /\ observed' = [Nothing EXCEPT !.command = "move_scene",
                                 !.moved = <<idx, dst_idx>>]
  /\ IF last'.status = "ok"
     THEN /\ update_menu(scenes', expanded, ms.line + 1 + (2 * dst_idx))
          /\ UNCHANGED expanded
     ELSE UNCHANGED menuVars

\* move_scene from menu_stat on
MovedScene(ms, direction) ==
  IF ms.status # "ok" THEN Returned("move_scene", ms.status)
  ELSE IF (ms.offset < 3 /\ direction = -1) \/ ms.manager # "scene"
  THEN Returned("move_scene", "ok")
  ELSE MovedFromMenu(ms, SceneIndex(ms.offset), SceneIndex(ms.offset) + direction)

\* SnowflakePlugin.move_scene(args), args = [direction]
move_scene(direction) ==
  /\ MenuDrawn
  /\ MovedScene(menu_stat(menubuf, cursor), direction)
  /\ UNCHANGED <<projectVars, disturbances>>

EditIndexRoundedUp(offset) == offset \div 2

\* edit_scene's idx: idx = offset - 1; idx //= 2
EditIndex(offset) == (offset - 1) \div 2

\* edit_scene from the file name get_file_by_idx gives: the file is opened
\* in the other window unless the name is None
Opened(f) ==
  /\ last' = Call("edit_scene", f.status, "-", cursor, 0, <<>>, <<>>)
  /\ observed' = [Nothing EXCEPT !.command = "edit_scene",
                                 !.opened = f.returned]

\* edit_scene from menu_stat on: the menu is drawn again, and on a line
\* below a header of the scene manager the scene's file is looked up
Edited(ms) ==
  IF ms.status # "ok" THEN Returned("edit_scene", ms.status)
  ELSE /\ update_menu(scenes, expanded, 1)
       /\ UNCHANGED <<storeVars, expanded>>
       /\ IF ms.offset = 0 \/ ms.manager # "scene"
          THEN Opened([status |-> "ok", returned |-> None])
          ELSE Opened(FileByIdx(scenes, EditIndex(ms.offset)))

\* SnowflakePlugin.edit_scene(args)
edit_scene ==
  /\ MenuDrawn
  /\ Edited(menu_stat(menubuf, cursor))
  /\ UNCHANGED <<projectVars, disturbances>>

\* SnowflakePlugin.on_bufwritepost_updatemenu(filename) of instance p: once
\* inited, the scenes are refreshed and the menu is drawn again
on_bufwritepost_updatemenu(p) ==
  /\ observed' = [Nothing EXCEPT !.self = p,
                                 !.command = "on_bufwritepost_updatemenu"]
  /\ IF inited[p]
     THEN /\ refresh_scenes(NoFault)
          /\ IF last'.status = "ok"
             THEN /\ update_menu(scenes', expanded, 1)
                  /\ UNCHANGED expanded
             ELSE UNCHANGED menuVars
     ELSE /\ last' = Call("on_bufwritepost_updatemenu", "ok", "-", p, 0, <<>>, <<>>)
          /\ UNCHANGED <<storeVars, menuVars>>
  /\ UNCHANGED <<projectVars, disturbances>>

\* the user puts the cursor on a line of the menu
MoveCursor(lnum) ==
  /\ MenuDrawn
  /\ lnum \in 1..Len(menubuf)
  /\ lnum # cursor
  /\ cursor' = lnum
  /\ last' = Call("cursor", "ok", "-", lnum, 0, <<>>, <<>>)
  /\ observed' = Nothing
  /\ UNCHANGED <<storeVars, expanded, menubuf, projectVars, disturbances>>

\* a call on the store made outside the plugin's commands
StoreCall ==
  /\ observed' = Nothing
  /\ UNCHANGED <<menuVars, projectVars>>

AddFaults == {NoFault, [kind |-> "write", n |-> 0], [kind |-> "yaml", n |-> 0]}

MoveFaults == {NoFault, [kind |-> "yaml", n |-> 0]}

AddAt(limit, faults) ==
  \E idx \in -1..(Len(scenes) + 1), title \in Titles, descr \in Descrs,
     fault \in faults :
    /\ Len(scenes) < limit
    /\ add_at(idx, title, descr, fault)
    /\ Meets(fault)
    /\ StoreCall

Move(faults) ==
  \E from_idx \in -1..Len(scenes), to_idx \in -1..Len(scenes), fault \in faults :
    move(from_idx, to_idx, fault) /\ Meets(fault) /\ StoreCall

RefreshScenes(faults) ==
  \E fault \in faults : refresh_scenes(fault) /\ Meets(fault) /\ StoreCall

Restart(faults) == \E fault \in faults : Load(fault) /\ Meets(fault) /\ StoreCall

Edit ==
  \E filename \in DOMAIN files, bytes \in EditContents :
    EditFile(filename, bytes) /\ StoreCall

\* The store with an editor writing the backing files and a file system that
\* can fail.
Next ==
  \/ AddAt(MaxScenes, AddFaults)
  \/ Move(MoveFaults)
  \/ RefreshScenes(Faults)
  \/ Restart(Faults)
  \/ Edit

Spec == Init /\ [][Next]_vars

\* The store alone: nothing else writes the files and no open() fails.
GetFileByIdx == \E idx \in -1..(Len(scenes) + 1) : get_file_by_idx(idx)

InitSnowflake(instances, answers, faults) ==
  \E p \in instances, a \in answers, fault \in faults :
    init_snowflake(p, a, fault) /\ Meets(fault)

\* a scene added or moved through the managers of instance p
ThroughInstance(p) ==
  /\ inited[p]
  /\ observed' = [Nothing EXCEPT !.self = p]
  /\ UNCHANGED <<menuVars, projectVars>>

AddAtThrough ==
  \E p \in Instances, idx \in 0..Len(scenes), descr \in Descrs :
    /\ Len(scenes) < MaxProjectScenes
    /\ add_at(idx, <<"a">>, descr, NoFault)
    /\ UNCHANGED disturbances
    /\ ThroughInstance(p)

MoveThrough ==
  \E p \in Instances, from_idx \in 0..(Len(scenes) - 1),
     to_idx \in 0..(Len(scenes) - 1) :
    /\ move(from_idx, to_idx, NoFault)
    /\ UNCHANGED disturbances
    /\ ThroughInstance(p)

\* Two plugin instances of one process in one project directory.
NextProject ==
  \/ InitSnowflake(Instances, Answers, {NoFault, [kind |-> "yaml", n |-> 0]})
  \/ \E doc \in ProjectDocs : EditProject(doc)
  \/ AddAtThrough
  \/ MoveThrough

SpecProject == Init /\ [][NextProject]_vars

ToggleMenu == toggle_menu

PrependScene ==
  \E title \in Titles, descr \in Descrs :
    Len(scenes) < MaxMenuScenes /\ prepend_scene(title, descr)

AppendScene ==
  \E title \in Titles, descr \in Descrs :
    Len(scenes) < MaxMenuScenes /\ append_scene(title, descr)

MoveScene == \E direction \in {-1, 1} : move_scene(direction)

EditScene == edit_scene

Cursor == \E lnum \in 1..Len(menubuf) : MoveCursor(lnum)

BufWritePost == on_bufwritepost_updatemenu(1)

\* One plugin instance driven from its menu.
NextMenu ==
  \/ InitSnowflake({1}, {[key \in DOMAIN NoInfo |-> "x"]}, {NoFault})
  \/ Cursor
  \/ ToggleMenu
  \/ PrependScene
  \/ AppendScene
  \/ MoveScene
  \/ EditScene
  \/ BufWritePost

SpecMenu == Init /\ [][NextMenu]_vars

BuildSnowflake == \E rets \in Retvals : build_snowflake(rets)

\* The store with its list read back between the calls that change it.
NextReading ==
  \/ AddAt(MaxListLen, {NoFault})
  \/ Move({NoFault})
  \/ GetFileByIdx
  \/ BuildSnowflake

SpecReading == Init /\ [][NextReading]_vars

NextUndisturbed ==
  \/ AddAt(MaxListLen, {NoFault})
  \/ Move({NoFault})
  \/ RefreshScenes({NoFault})
  \/ Restart({NoFault})

SpecUndisturbed == Init /\ [][NextUndisturbed]_vars

----------------------------------------------------------------------------
(* Properties *)

\* the list without its k-th entry (k counted from 1)
Without(list, k) ==
  [i \in 1..(Len(list) - 1) |-> IF i < k THEN list[i] ELSE list[i + 1]]

\* the indices moveTo and fileAt accept for the list
InRange(list, i) == i >= 0 /\ i < Len(list)

FilenamesOf(list) == {list[i].filename : i \in 1..Len(list)}

\* the scene list file holds the list
Persisted(list) == yamlFile.exists /\ YamlLoad(yamlFile.doc) = list

\* C1: a move with both indices inside the list takes the scene at `from`
\* out and puts it back at index `to` of the remaining list: the list keeps
\* its length, the moved scene is at `to`, the other scenes keep their order;
\* a list [A, B, C] moved from 0 to 2 becomes [B, C, A].
MoveIsPopThenInsert ==
  [][ ( /\ last'.op = "move"
        /\ last'.status = "ok"
        /\ InRange(scenes, last'.a)
        /\ InRange(scenes, last'.b) )
      => /\ Len(scenes') = Len(scenes)
         /\ scenes'[last'.b + 1] = scenes[last'.a + 1]
         /\ Without(scenes', last'.b + 1) = Without(scenes, last'.a + 1)
         /\ (Len(scenes) = 3 /\ last'.a = 0 /\ last'.b = 2
               => scenes' = <<scenes[2], scenes[3], scenes[1]>>) ]_vars

\* C1 witness: the list [1, 2, 3] has been moved from 0 to 2.
MovedFirstToLast ==
  /\ last.op = "move" /\ last.status = "ok" /\ last.a = 0 /\ last.b = 2
  /\ Len(scenes) = 3
  /\ scenes[1].filename = 2 /\ scenes[2].filename = 3 /\ scenes[3].filename = 1

\* C4: an insertion at an index between 0 and the length of the list makes
\* the list one longer, puts the new scene, under a filename nothing carried
\* before, at that index, and keeps the order of the scenes that were there.
InsertPlacesAtIndex ==
  [][ ( /\ last'.op = "add_at"
        /\ last'.status = "ok"
        /\ last'.a >= 0
        /\ last'.a <= Len(scenes) )
      => /\ Len(scenes') = Len(scenes) + 1
         /\ scenes'[last'.a + 1].title = last'.t
         /\ scenes'[last'.a + 1].descr = last'.d
         /\ scenes'[last'.a + 1].filename \notin FilenamesOf(scenes) \cup DOMAIN files
         /\ Without(scenes', last'.a + 1) = scenes ]_vars

\* C4 witness: a scene has been inserted between two others.
InsertedInTheMiddle ==
  /\ last.op = "add_at" /\ last.status = "ok" /\ last.a = 1
  /\ Len(scenes) = 3
  /\ scenes[1].filename = 1 /\ scenes[2].filename = 3 /\ scenes[3].filename = 2

\* C7: after an insertion, a move or a refresh that ended without an error,
\* the scene list file holds exactly the list in memory.
PersistedAfterMutation ==
  (last.op \in {"add_at", "move", "refresh_scenes"} /\ last.status = "ok")
    => Persisted(scenes)

\* C7 witness: a move has rearranged a list that an earlier call had saved.
MovedAndPersisted ==
  /\ last.op = "move" /\ last.status = "ok" /\ last.a = 1 /\ last.b = 0
  /\ Len(scenes) = 2
  /\ scenes[1].filename = 2 /\ scenes[2].filename = 1
  /\ Persisted(scenes)

\* C2: a refresh that follows a refresh, both ending without an error,
\* changes no backing file and no entry of the scene list.
RefreshIsIdempotent ==
  [][ ( /\ last.op = "refresh_scenes" /\ last.status = "ok"
        /\ last'.op = "refresh_scenes" /\ last'.status = "ok" )
      => (files' = files /\ scenes' = scenes) ]_vars

\* the backing file of the scene starts with the comment line of its title,
\* the comment line of its descr and an empty line
Canonical(scene) ==
  /\ scene.filename \in DOMAIN files
  /\ Len(ReadLines(files[scene.filename])) >= 3
  /\ ReadLines(files[scene.filename])[1] = MARKER \o scene.title \o <<NL>>
  /\ ReadLines(files[scene.filename])[2] = MARKER \o scene.descr \o <<NL>>
  /\ ReadLines(files[scene.filename])[3] = <<NL>>

\* C3: after a refresh that ended without an error, every scene's backing
\* file starts with '.. ' + title, '.. ' + descr and a blank line.
RefreshLeavesCanonicalFiles ==
  (last.op = "refresh_scenes" /\ last.status = "ok")
    => \A i \in 1..Len(scenes) : Canonical(scenes[i])

\* C5: an insertion at 0 into the empty list leaves a list of one scene whose
\* backing file is '.. ' + t, '.. ' + d and a blank line, and a refresh right
\* after it reads t and d back.
InsertIntoEmptyReadsBack ==
  [][ /\ ( /\ last'.op = "add_at" /\ last'.status = "ok"
           /\ scenes = <<>> /\ last'.a = 0 )
         => /\ Len(scenes') = 1
            /\ scenes'[1].filename \in DOMAIN files'
            /\ files'[scenes'[1].filename]
                 = MARKER \o last'.t \o <<NL>> \o MARKER \o last'.d \o <<NL, NL>>
      /\ ( /\ last.op = "add_at" /\ last.status = "ok" /\ Len(scenes) = 1
           /\ last'.op = "refresh_scenes" /\ last'.status = "ok" )
         => /\ scenes'[1].title = last.t
            /\ scenes'[1].descr = last.d ]_vars

\* C6: a store constructed from the scene list file that holds the saved
\* list has that list: same length, order, titles, descrs and filenames.
SaveLoadRoundTrip ==
  [][ ( /\ Persisted(scenes)
        /\ last'.op = "__init__" /\ last'.status = "ok" )
      => scenes' = scenes ]_vars

\* C8: an insertion that fails to write the new backing file leaves the list
\* in memory and the scene list file as they were.
FailedInsertChangesNothing ==
  [][ (last'.op = "add_at" /\ last'.status = "OSError" /\ last'.at = "write")
      => (scenes' = scenes /\ yamlFile' = yamlFile) ]_vars

\* C9: a refresh that ends with an error at some scene leaves the list in
\* memory as it was, and equal to the persisted list if it was before.
AbortedRefreshChangesNothing ==
  [][ (last'.op = "refresh_scenes" /\ last'.status # "ok" /\ last'.a >= 1)
      => /\ scenes' = scenes
         /\ (Persisted(scenes) => yamlFile' = yamlFile /\ YamlLoad(yamlFile'.doc) = scenes') ]_vars

\* C10: a move with an index outside the list ends with an error and leaves
\* the list in memory and the scene list file as they were.
MoveOutOfRangeRejected ==
  [][ ( /\ last'.op = "move"
        /\ (~InRange(scenes, last'.a) \/ ~InRange(scenes, last'.b)) )
      => /\ last'.status \in {"IndexError", "AssertionError"}
         /\ scenes' = scenes
         /\ yamlFile' = yamlFile ]_vars

\* C11: get_file_by_idx(i) returns None for every i when the list is empty;
\* on a non-empty list it returns the filename of the scene at index i for
\* 0 <= i < len and ends in IndexError for i >= len.
FileAtIndex ==
  [][last'.op = "get_file_by_idx" =>
       /\ scenes = <<>> =>
            last'.status = "ok" /\ observed'.returned = None
       /\ InRange(scenes, last'.a) =>
            /\ last'.status = "ok"
            /\ observed'.returned = Str(scenes[last'.a + 1].filename)
       /\ scenes # <<>> /\ last'.a >= Len(scenes) =>
            last'.status = "IndexError" /\ observed'.returned = None]_vars

\* the file of the second of three scenes has been read back
ReadSecondOfThree ==
  /\ last.op = "get_file_by_idx" /\ last.status = "ok"
  /\ Len(scenes) = 3 /\ last.a = 1
  /\ observed.returned = Str(scenes[2].filename)

\* C12: no two scenes of the list carry the same filename.
NoDuplicateFilenames ==
  \A i \in 1..Len(scenes), j \in 1..Len(scenes) :
    scenes[i].filename = scenes[j].filename => i = j

\* three scenes, inserted out of order and then moved, under three filenames
ThreeFilenamesAfterMove ==
  /\ last.op = "move" /\ last.status = "ok" /\ last.a = 2 /\ last.b = 1
  /\ Len(scenes) = 3
  /\ Cardinality(FilenamesOf(scenes)) = 3
  /\ scenes[1].filename = 3

\* the filenames of the list, in its order
FilenameOrder(list) == [i \in 1..Len(list) |-> list[i].filename]

\* C13: no call of add_at, move or refresh_scenes takes a filename out of
\* the list; move and refresh_scenes leave the length of the list and the
\* set of its filenames as they were, and refresh_scenes leaves the order of
\* the filenames as it was.
NoSceneDeletedOrRenamed ==
  [][ /\ last'.op \in {"add_at", "move", "refresh_scenes"}
         => FilenamesOf(scenes) \subseteq FilenamesOf(scenes')
      /\ last'.op \in {"move", "refresh_scenes"}
         => /\ Len(scenes') = Len(scenes)
            /\ FilenamesOf(scenes') = FilenamesOf(scenes)
      /\ last'.op = "refresh_scenes"
         => FilenameOrder(scenes') = FilenameOrder(scenes) ]_vars

\* a refresh has gone over a list of three scenes that a move had reordered
RefreshedAfterReordering ==
  /\ last.op = "refresh_scenes" /\ last.status = "ok"
  /\ Len(scenes) = 3
  /\ FilenameOrder(scenes) = <<2, 3, 1>>

\* where the text of scene i starts in the scene document
RECURSIVE Offset(_, _)
Offset(list, i) ==
  IF i = 1 THEN 0
  ELSE Offset(list, i - 1) + Len(files[list[i - 1].filename]) + 1

\* C15: the document SceneManager.build hands to the converter holds, for
\* each scene in the order of the list at build time, the contents of its
\* backing file followed by one line feed, and nothing else.
SceneDocumentInListOrder ==
  [][ ( /\ last'.op = "build_snowflake"
        /\ Len(observed'.converted) = 3 )
      => /\ \A i \in 1..Len(scenes) :
              /\ SubSeq(observed'.document, Offset(scenes, i) + 1,
                        Offset(scenes, i) + Len(files[scenes[i].filename]))
                   = files[scenes[i].filename]
              /\ observed'.document[Offset(scenes, i + 1)] = NL
         /\ Len(observed'.document) = Offset(scenes, Len(scenes) + 1) ]_vars

\* a list of three scenes with different titles has been moved and built
BuiltAfterMove ==
  /\ last.op = "build_snowflake" /\ last.status = "ok"
  /\ Len(scenes) = 3
  /\ FilenameOrder(scenes) = <<2, 3, 1>>
  /\ scenes[1].title # scenes[2].title
  /\ observed.document
       = files[2] \o <<NL>> \o files[3] \o <<NL>> \o files[1] \o <<NL>>

\* C16: in a build run, a converter run that returns non-zero is the last
\* one the run starts, and the run ends in the conversion error.
ConversionFailsFast ==
  last.op = "build_snowflake" =>
    \A i \in 1..Len(observed.converted) :
      observed.converted[i].retval # 0 =>
        /\ i = Len(observed.converted)
        /\ last.status = "RuntimeError"

\* the first conversion failed and was the only one the run started
FirstConversionFailed ==
  /\ last.op = "build_snowflake" /\ last.status = "RuntimeError"
  /\ Len(observed.converted) = 1
  /\ observed.converted[1] = [doc |-> "one-docs", retval |-> 1]
  /\ observed.document = <<>>

\* C17: when the Snowflake command loads snowflake.yaml, every info field
\* that is not None in memory before the load, and for which the file holds
\* null or nothing, has its value from before after the load.
LoadKeepsKnownInfo ==
  [][ ( /\ observed'.command = "init_snowflake"
        /\ ~inited[observed'.self]
        /\ snowflakeYaml.exists )
      => \A key \in DOMAIN NoInfo :
           ( /\ InfoOf(observed'.self)[key] \notin {None, Absent}
             /\ \/ ~snowflakeYaml.doc.has_info
                \/ snowflakeYaml.doc.info[key] \in {None, Absent} )
           => observed'.loaded[key] = InfoOf(observed'.self)[key] ]_vars

\* C18: check_snowflake prompts once for each info field that is None after
\* the load and for no other; afterwards no field is None, and the fields
\* that were not None have the values they had.
PromptsOnlyForMissingInfo ==
  [][ \A p \in Instances :
        ( /\ observed'.command = "init_snowflake"
          /\ observed'.self = p
          /\ ~inited[p] )
        => \A key \in DOMAIN NoInfo :
             /\ Cardinality({i \in 1..Len(observed'.prompts) :
                               observed'.prompts[i] = key})
                  = (IF observed'.loaded[key] \in {None, Absent} THEN 1 ELSE 0)
             /\ InfoOf(p)'[key] \notin {None, Absent}
             /\ observed'.loaded[key] \notin {None, Absent}
                  => InfoOf(p)'[key] = observed'.loaded[key] ]_vars

\* the file held a copyright year only: two prompts, the year kept
PromptedForNameAndAuthor ==
  /\ last.op = "init_snowflake" /\ last.status = "ok"
  /\ observed.prompts = <<"name", "author">>
  /\ observed.loaded["copyright-year"] = Str("z")
  /\ InfoOf(observed.self)["copyright-year"] = Str("z")
  /\ InfoOf(observed.self)["name"] \in {Str("x"), Str("y")}

\* C19: a call made through one plugin instance leaves the scene list and
\* the info of every other instance as they were.
InstancesAreIsolated ==
  [][ \A q \in Instances :
        (observed'.self # 0 /\ observed'.self # q)
        => /\ ScenesOf(q)' = ScenesOf(q)
           /\ InfoOf(q)' = InfoOf(q) ]_vars

\* the line of the menu with the header of the expanded SCENES group
ScenesHeader == CHOOSE i \in 1..Len(menubuf) : menubuf[i] = <<"-", "SCENES">>

\* C14: with the SCENES group expanded, the title line of scene i is line
\* header + 1 + 2i of the menu and its description line is header + 2 + 2i;
\* both resolve to floor((L - header - 1) / 2) = i, and edit_scene with the
\* cursor on either opens the backing file of scene i.
MenuLineOpensItsScene ==
  [][ ( /\ observed'.command = "edit_scene"
        /\ expanded.scene )
      => /\ Len(menubuf) = ScenesHeader + 2 * Len(scenes)
         /\ \A i \in 0..(Len(scenes) - 1) :
              /\ menubuf[ScenesHeader + 1 + 2 * i] = <<" ", " ">> \o scenes[i + 1].title
              /\ menubuf[ScenesHeader + 2 + 2 * i]
                   = <<" ", " ", " ">> \o scenes[i + 1].descr
              /\ cursor \in {ScenesHeader + 1 + 2 * i, ScenesHeader + 2 + 2 * i}
                   => /\ (cursor - ScenesHeader - 1) \div 2 = i
                      /\ last'.status = "ok"
                      /\ observed'.opened = Str(scenes[i + 1].filename) ]_vars

\* the file of the second of two scenes was opened from its description
\* line, below the expanded SNOWFLAKE group
OpenedFromDescriptionLine ==
  /\ observed.command = "edit_scene" /\ last.status = "ok"
  /\ Len(scenes) = 2
  /\ expanded.snowflake /\ expanded.scene
  /\ last.a = 14
  /\ observed.opened = Str(scenes[2].filename)

\* C20: with the cursor on the header of the SCENES group or on a line of
\* a scene, move_scene ends without an error and either calls nothing or
\* calls move with both indices inside the list.
MoveSceneStaysInRange ==
  [][ ( /\ observed'.command = "move_scene"
        /\ menu_stat(menubuf, cursor).manager = "scene" )
      => /\ last'.status = "ok"
         /\ \/ observed'.moved = <<>>
            \/ /\ InRange(scenes, observed'.moved[1])
               /\ InRange(scenes, observed'.moved[2]) ]_vars

\* the line of a menu with the header of the SCENES group
ScenesHeaderOf(buf) ==
  CHOOSE i \in 1..Len(buf) : buf[i] \in {<<"-", "SCENES">>, <<"+", "SCENES">>}

\* C21: when move_scene has moved a scene to an index of the list, the
\* cursor is on line header + 1 + 2 * index of the menu drawn after the
\* move, that line exists, and it shows the title of the moved scene.
CursorFollowsMovedScene ==
  [][ ( /\ observed'.command = "move_scene"
        /\ last'.op = "move" /\ last'.status = "ok"
        /\ InRange(scenes, observed'.moved[1])
        /\ InRange(scenes, observed'.moved[2]) )
      => /\ cursor' = ScenesHeaderOf(menubuf') + 1 + 2 * observed'.moved[2]
         /\ cursor' <= Len(menubuf')
         /\ menubuf'[cursor']
              = <<" ", " ">> \o scenes[observed'.moved[1] + 1].title ]_vars

\* C22: from the header of the SCENES group or a line of a scene,
\* prepend_scene and append_scene call add_at with index 0 on an empty list
\* and an index from 0 to the length of the list otherwise, no assertion of
\* add_at fails, and prepend_scene on the header line changes nothing.
AddIndexMeetsAssertions ==
  [][ ( /\ observed'.command \in {"prepend_scene", "append_scene"}
        /\ menu_stat(menubuf, cursor).manager = "scene" )
      => /\ last'.op = "add_at"
              => /\ last'.status # "AssertionError"
                 /\ last'.a >= 0 /\ last'.a <= Len(scenes)
                 /\ scenes = <<>> => last'.a = 0
         /\ ( /\ observed'.command = "prepend_scene"
              /\ menu_stat(menubuf, cursor).offset = 0 )
              => /\ last'.op = "prepend_scene"
                 /\ UNCHANGED <<scenes, files, yamlFile, menubuf, expanded>> ]_vars

\* a scene was appended from the description line of the only scene, below
\* the expanded SNOWFLAKE group
AppendedBelowLastScene ==
  /\ observed.command = "append_scene"
  /\ last.op = "add_at" /\ last.status = "ok" /\ last.a = 1
  /\ Len(scenes) = 2
  /\ expanded.snowflake
  /\ cursor = 12
  /\ menubuf[13] = <<" ", " ">> \o last.t
  /\ scenes[1].title # last.t

=============================================================================
